---- MODULE Spec2Model ----
(***************************************************************************)
(* Model of backend/main.py: the exchange-rate API with its three caches   *)
(* (spot rates with one shared timestamp, the BTC rate, history series per *)
(* key), the two upstream gateways and the three request handlers          *)
(* GET /rate/{currency}, GET /history and GET /convert.                    *)
(*                                                                         *)
(* Rates are floats in the program; the model keeps them as integers in    *)
(* tenths (5.2 is 52, the base rate 1.0 is 10) and a converted amount as   *)
(* the fraction num/den, compared by cross multiplication.                 *)
(***************************************************************************)
EXTENDS Integers, Sequences, FiniteSets, TLC

VARIABLES
    clock,               \* time.time(), in seconds
    market,              \* version of the data the two providers currently serve
    chart,               \* the market chart the crypto provider currently serves
    cache_rates,         \* dict: currency -> rate
    cache_time,          \* shared timestamp of cache_rates
    cache_history,       \* dict: key -> series
    cache_history_time,  \* dict: key -> timestamp
    btc_cache,           \* <<>> is None, <<v>> is the value v
    btc_cache_time,
    req,                 \* per handler: the request in progress or just answered
    obs                  \* observer of GET /rate/{watch}: the last one answered

vars == <<clock, market, chart, cache_rates, cache_time, cache_history,
          cache_history_time, btc_cache, btc_cache_time, req, obs>>

caches == <<cache_rates, cache_time, cache_history, cache_history_time,
            btc_cache, btc_cache_time>>

upstream == <<market, chart>>

(***************************************************************************)
(* Program constants                                                       *)
(***************************************************************************)
CACHE_DURATION == 900

CURRENCY_CODES == [USD |-> 1, EUR |-> 21619, GBP |-> 21623]

supported_currencies == {"USD", "EUR", "GBP", "BTC", "BRL"}

\* the floats 1.0 and -1 in tenths
Scale == 10
BaseRate == 1 * Scale
BacenErrorValue == (-1) * Scale

(***************************************************************************)
(* Bounds of the exploration                                               *)
(***************************************************************************)
\* the clock starts here (cache_time = 0 is long ago) and runs for MaxTicks periods
StartTime == 4 * CACHE_DURATION
TickStep == CACHE_DURATION \div 2
MaxTicks == 2
\* the providers serve versions 0..MaxMarket of their data
MaxMarket == 1
\* a market chart has at most MaxSamples samples
MaxSamples == 3
\* gateway calls in progress are waited for MaxWaits times in a run of SpecPool
MaxWaits == 1
\* handlers of the pool; Spec runs requests one at a time on handler 1
Handlers == {1, 2}
MaxClock == StartTime + MaxTicks * TickStep


(***************************************************************************)
(* str.upper() on the inputs above                                         *)
(***************************************************************************)
Upper(s) ==
    CASE s = "usd" -> "USD"
      [] s = "btc" -> "BTC"
      [] OTHER -> s

(***************************************************************************)
(* Python values                                                           *)
(***************************************************************************)
None == <<>>
Some(v) == <<v>>
\* truth value of "btc_cache": None and 0 are false
Truthy(x) == x # None /\ x[1] # 0

EmptyDict == <<>>
\* the other keys dropped
DictPutOnly(d, k, v) == [x \in {k} |-> v]
\* d[k] = v
DictPut(d, k, v) == [x \in (DOMAIN d) \cup {k} |-> IF x = k THEN v ELSE d[x]]

\* a function result: a value, or the HTTPException raised
Ok(v) == [ok |-> TRUE, value |-> v, status |-> 200]
Raise(code) == [ok |-> FALSE, value |-> 0, status |-> code]

(***************************************************************************)
(* float(valor_str.replace(",", ".")) on strings of characters; the result *)
(* is in tenths, FALSE in "ok" is the ValueError of float()                *)
(***************************************************************************)
Digits == <<"0", "1", "2", "3", "4", "5", "6", "7", "8", "9">>
IsDigit(ch) == \E i \in 1..10 : Digits[i] = ch
DigitVal(ch) == (CHOOSE i \in 1..10 : Digits[i] = ch) - 1

ReplaceComma(s) == [i \in DOMAIN s |-> IF s[i] = "," THEN "." ELSE s[i]]

RECURSIVE DigitsVal(_)
DigitsVal(s) ==
    IF s = <<>> THEN 0
    ELSE 10 * DigitsVal(SubSeq(s, 1, Len(s) - 1)) + DigitVal(s[Len(s)])

ParseFloat(str) ==
    LET neg == str # <<>> /\ str[1] = "-"
        body == IF neg THEN Tail(str) ELSE str
        dots == {i \in DOMAIN body : body[i] = "."}
        dot == IF dots = {} THEN Len(body) + 1 ELSE CHOOSE i \in dots : TRUE
        ip == SubSeq(body, 1, dot - 1)
        fp == SubSeq(body, dot + 1, Len(body))
        wellformed == /\ Cardinality(dots) <= 1
                      /\ Len(ip) + Len(fp) > 0
                      /\ Len(fp) <= 1
                      /\ \A i \in DOMAIN ip : IsDigit(ip[i])
                      /\ \A i \in DOMAIN fp : IsDigit(fp[i])
        mag == DigitsVal(ip) * Scale + DigitsVal(fp)
    IN IF wellformed THEN [ok |-> TRUE, value |-> IF neg THEN 0 - mag ELSE mag]
       ELSE [ok |-> FALSE, value |-> 0]

(***************************************************************************)
(* Dates. A date is a day number; the text of day n in format f is the     *)
(* record [fmt |-> f, day |-> n]. strptime raises ValueError (ok = FALSE)  *)
(* on a text in another format.                                            *)
(***************************************************************************)
SecondsPerDay == 24 * 3600
\* offset of the server's local time zone, in seconds
LocalUtcOffset == 0 - 3 * 3600

strftime(day, f) == [fmt |-> f, day |-> day]
strptime(text, f) ==
    IF text.fmt = f THEN [ok |-> TRUE, value |-> text.day] ELSE [ok |-> FALSE, value |-> 0]

\* datetime.fromtimestamp(timestamp / 1000), the date part, timestamp in milliseconds
DateFromTimestampMs(timestamp, tz) == (timestamp + tz * 1000) \div (SecondsPerDay * 1000)
\* datetime.today(), the date part
Today(now) == (now + LocalUtcOffset) \div SecondsPerDay

(***************************************************************************)
(* What the providers answer. status 0 stands for a transport error        *)
(* (timeout, connection refused): requests.get raises.                     *)
(***************************************************************************)
BacenValor(series_id, m) ==
    LET unit == CASE series_id = 1 -> "5"
                  [] series_id = 21619 -> "6"
                  [] OTHER -> "7"
    IN <<unit, ",", Digits[(m % 10) + 1]>>

BacenEntry(day, valor) ==
    [data |-> strftime(day, "%d/%m/%Y"), has_valor |-> TRUE, valor |-> valor]

BacenGood(series_id, start, end, m) ==
    [status |-> 200,
     data |-> <<BacenEntry(start, BacenValor(series_id, 0)),
                BacenEntry(end, BacenValor(series_id, m))>>]

BacenFailures ==
    { [status |-> 503, data |-> <<>>],
      [status |-> 0, data |-> <<>>],
      [status |-> 200, data |-> <<>>],
      [status |-> 200,
       data |-> <<[data |-> strftime(0, "%d/%m/%Y"), has_valor |-> FALSE, valor |-> <<>>]>>],
      [status |-> 200, data |-> <<BacenEntry(0, <<"-", "1">>)>>] }

\* the provider answers with its current data, or the call fails in one of these ways
BacenResponses(series_id, start, end) ==
    {BacenGood(series_id, start, end, market)} \cup BacenFailures

GeckoPrice(m) == IF m % 2 = 1 THEN 0 ELSE 3000 + 10 * m

GeckoRateResponses ==
    {[status |-> 200, has_brl |-> TRUE, brl |-> GeckoPrice(market)],
     [status |-> 429, has_brl |-> FALSE, brl |-> 0],
     [status |-> 0, has_brl |-> FALSE, brl |-> 0],
     [status |-> 200, has_brl |-> FALSE, brl |-> 0]}

\* the market chart of the last "days" days: <<timestamp in ms, price>> samples,
\* several a day, oldest first; the model's chart is the same for every "days"
HalfDayMs == 12 * 3600 * 1000
DefaultChart ==
    << <<HalfDayMs, 2900>>, <<HalfDayMs + 1000, 2950>>, <<3 * HalfDayMs, 3000>> >>

GeckoHistoryResponses(days) ==
    {[status |-> 200, has_prices |-> TRUE, prices |-> chart],
     [status |-> 429, has_prices |-> FALSE, prices |-> <<>>],
     [status |-> 0, has_prices |-> FALSE, prices |-> <<>>]}

(***************************************************************************)
(* Upstream gateways                                                       *)
(***************************************************************************)
fetch_btc_rate(r) ==
    IF r.status = 200 /\ r.has_brl THEN Ok(r.brl) ELSE Raise(500)

\* the first sample of a date kept
RECURSIVE CollapsePricesKeepFirst(_, _, _)
CollapsePricesKeepFirst(prices, tz, result) ==
    IF prices = <<>> THEN result
    ELSE LET timestamp == Head(prices)[1]
             price == Head(prices)[2]
             date == strftime(DateFromTimestampMs(timestamp, tz), "%Y-%m-%d")
         IN CollapsePricesKeepFirst(Tail(prices), tz,
                IF date \in DOMAIN result THEN result
                ELSE DictPut(result, date, [BRL |-> price]))

\* the loop over data.get("prices", []): later samples of a date overwrite earlier ones
RECURSIVE CollapsePrices(_, _, _)
CollapsePrices(prices, tz, result) ==
    IF prices = <<>> THEN result
    ELSE LET timestamp == Head(prices)[1]
             price == Head(prices)[2]
             date == strftime(DateFromTimestampMs(timestamp, tz), "%Y-%m-%d")
         IN CollapsePrices(Tail(prices), tz, DictPut(result, date, [BRL |-> price]))

fetch_btc_history(r) ==
    IF r.status # 200 THEN Raise(500)
    ELSE Ok(CollapsePrices(IF r.has_prices THEN r.prices ELSE <<>>, LocalUtcOffset, EmptyDict))

\* the error value -1 returned as a rate
fetch_bacen_rate_sentinel(r) ==
    IF r.status = 0 THEN Raise(500)
    ELSE IF r.status # 200 THEN Raise(r.status)
    ELSE IF Len(r.data) = 0 THEN Raise(500)
    ELSE LET last == r.data[Len(r.data)]
         IN IF ~last.has_valor THEN Raise(500)
            ELSE LET valor_float == ParseFloat(ReplaceComma(last.valor))
                 IN IF ~valor_float.ok THEN Raise(500)
                    ELSE Ok(valor_float.value)

fetch_bacen_rate(r) ==
    IF r.status = 0 THEN Raise(500)
    ELSE IF r.status # 200 THEN Raise(r.status)
    ELSE IF Len(r.data) = 0 THEN Raise(500)
    ELSE LET last == r.data[Len(r.data)]
         IN IF ~last.has_valor THEN Raise(500)
            ELSE LET valor_float == ParseFloat(ReplaceComma(last.valor))
                 IN IF ~valor_float.ok THEN Raise(500)
                    ELSE IF valor_float.value = BacenErrorValue THEN Raise(500)
                    ELSE Ok(valor_float.value)

RECURSIVE BacenEntries(_, _)
BacenEntries(data, result) ==
    IF data = <<>> THEN Ok(result)
    ELSE LET entry == Head(data)
             date == strptime(entry.data, "%d/%m/%Y")
             valor == IF entry.has_valor THEN ParseFloat(ReplaceComma(entry.valor))
                      ELSE [ok |-> FALSE, value |-> 0]
         IN IF ~date.ok \/ ~valor.ok THEN Raise(500)
            ELSE BacenEntries(Tail(data),
                              DictPut(result, strftime(date.value, "%Y-%m-%d"),
                                      [BRL |-> valor.value]))

fetch_bacen_history(r) ==
    IF r.status # 200 THEN Raise(500)
    ELSE IF Len(r.data) = 0 THEN Raise(500)
    ELSE BacenEntries(r.data, EmptyDict)

(***************************************************************************)
(* Cache lookups                                                           *)
(***************************************************************************)
Get(d, k, default) == IF k \in DOMAIN d THEN d[k] ELSE default

\* the comparison turned round
SpotHitReversed(rates, stamp, currency, now) ==
    rates # EmptyDict /\ now - stamp > CACHE_DURATION /\ currency \in DOMAIN rates

\* the age of the entry not looked at
SpotHitNoTtl(rates, stamp, currency, now) ==
    rates # EmptyDict /\ currency \in DOMAIN rates

\* half the TTL
SpotHitHalfTtl(rates, stamp, currency, now) ==
    rates # EmptyDict /\ now - stamp < CACHE_DURATION \div 2 /\ currency \in DOMAIN rates

\* get_rates: "cache_rates and now - cache_time < CACHE_DURATION and currency in cache_rates"
SpotHit(rates, stamp, currency, now) ==
    rates # EmptyDict /\ now - stamp < CACHE_DURATION /\ currency \in DOMAIN rates

\* fetch_btc_rate_cached: "btc_cache and now - btc_cache_time < CACHE_DURATION"
BtcHit(cached, stamp, now) ==
    Truthy(cached) /\ now - stamp < CACHE_DURATION

\* the day count left out of the key
HistoryKeyNoDays(base, days) == <<base, "_", 0>>

\* get_history: key = f"{base}_{days}"
HistoryKey(base, days) == <<base, "_", days>>

\* a series exactly CACHE_DURATION old still served
HistoryHitInclusive(history, stamps, key, now) ==
    key \in DOMAIN history /\ now - Get(stamps, key, 0) <= CACHE_DURATION

\* get_history: "key in cache_history and (now - cache_history_time.get(key, 0) < ...)"
HistoryHit(history, stamps, key, now) ==
    key \in DOMAIN history /\ now - Get(stamps, key, 0) < CACHE_DURATION

DaysInRangeLoose(days) == 0 <= days /\ days <= 366

\* get_history: "1 <= days <= 365"
DaysInRange(days) == 1 <= days /\ days <= 365

RateGatewayAllCrypto(currency) ==
    IF currency = "BTC" \/ currency \in DOMAIN CURRENCY_CODES THEN "btc_rate"
    ELSE "unsupported"

\* get_rates, lines 145-150: the gateway a missed currency goes to
RateGateway(currency) ==
    IF currency = "BTC" THEN "btc_rate"
    ELSE IF currency \in DOMAIN CURRENCY_CODES THEN "bacen_rate"
    ELSE "unsupported"

(***************************************************************************)
(* Requests. A record holds the handler's locals, its position "pc" and,   *)
(* once answered (pc = "done"), the response; calls, failed, source, side  *)
(* and market0 only record what happened.                                  *)
(***************************************************************************)
IdleReq ==
    [pc |-> "idle", op |-> "none", currency |-> "", to_currency |-> "", n |-> 0,
     now |-> 0, btc_now |-> 0, from_rate |-> 0,
     calls |-> 0, failed |-> FALSE, source |-> "", side |-> "", market0 |-> 0,
     status |-> 0, rate |-> 0, series |-> EmptyDict, num |-> 0, den |-> 1]

NewReq(op, currency, to_currency, n) ==
    [IdleReq EXCEPT !.op = op, !.currency = currency, !.to_currency = to_currency,
                    !.n = n, !.now = clock, !.btc_now = clock, !.market0 = market]

InFlight(r) == r.pc \notin {"idle", "done"}
\* requests are served one at a time
NoneInFlight == \A g \in Handlers : ~InFlight(req[g])

\* one lock around every request
CanStartLocked(h) == NoneInFlight

\* a handler of the pool that is not busy takes the next request; the handlers take
\* no lock
CanStart(h) == ~InFlight(req[h])

\* raise HTTPException(status_code=status) before any gateway call
Error(r, status) == [r EXCEPT !.pc = "done", !.status = status]

\* falls back to whatever cache_rates still holds
GatewayErrorFallback(r, status) ==
    [r EXCEPT !.pc = "done", !.status = 200, !.calls = @ + 1, !.failed = TRUE,
              !.rate = Get(cache_rates, r.currency, 0)]

\* the gateway call of r raised HTTPException(status)
GatewayError(r, status) ==
    [r EXCEPT !.pc = "done", !.status = status, !.calls = @ + 1, !.failed = TRUE]

\* source: where the answer came from, "spot", "btc_cache" or "gateway"
RateAnswer(r, value, source) ==
    [r EXCEPT !.pc = "done", !.status = 200, !.rate = value, !.source = source]

\* the observer notes the answered request r for its code, and when the value that
\* code has in cache_rates was obtained from upstream
Observe(r, fetched) ==
    IF r.op = "rate" /\ r.currency = obs.watch
    THEN [obs EXCEPT !.seen = TRUE, !.now = r.now, !.calls = r.calls,
                     !.failed = r.failed, !.fetched = fetched]
    ELSE obs

(***************************************************************************)
(* GET /rate/{currency}                                                    *)
(***************************************************************************)
\* a rate taken from the BTC cache stamped with the time of the BTC cache
RateStartKeepsBtcStamp(h, cur) ==
    /\ CanStart(h)
    /\ LET r == NewReq("rate", Upper(cur), "", 0)
           currency == r.currency
           now == r.now
       IN IF SpotHit(cache_rates, cache_time, currency, now)
          THEN /\ req' = [req EXCEPT ![h] = RateAnswer(r, cache_rates[currency], "spot")]
               /\ obs' = Observe(req'[h], obs.fetched)
               /\ UNCHANGED caches
          ELSE IF RateGateway(currency) = "btc_rate"
          THEN IF BtcHit(btc_cache, btc_cache_time, r.btc_now)
               THEN /\ cache_rates' = DictPut(cache_rates, currency, btc_cache[1])
                    /\ cache_time' = btc_cache_time
                    /\ req' = [req EXCEPT ![h] = RateAnswer(r, btc_cache[1], "btc_cache")]
                    /\ obs' = Observe(req'[h], btc_cache_time)
                    /\ UNCHANGED <<cache_history, cache_history_time,
                                   btc_cache, btc_cache_time>>
               ELSE /\ req' = [req EXCEPT ![h] = [r EXCEPT !.pc = "btc_rate"]]
                    /\ UNCHANGED <<caches, obs>>
          ELSE IF RateGateway(currency) = "bacen_rate"
          THEN /\ req' = [req EXCEPT ![h] = [r EXCEPT !.pc = "bacen_rate"]]
               /\ UNCHANGED <<caches, obs>>
          ELSE /\ req' = [req EXCEPT ![h] = Error(r, 400)]
               /\ obs' = Observe(req'[h], obs.fetched)
               /\ UNCHANGED caches
    /\ UNCHANGED <<clock, upstream>>

\* handler h takes GET /rate/{cur} and runs it up to its gateway call or its answer
RateStart(h, cur) ==
    /\ CanStart(h)
    /\ LET r == NewReq("rate", Upper(cur), "", 0)
           currency == r.currency
           now == r.now
       IN IF SpotHit(cache_rates, cache_time, currency, now)
          THEN /\ req' = [req EXCEPT ![h] = RateAnswer(r, cache_rates[currency], "spot")]
               /\ obs' = Observe(req'[h], obs.fetched)
               /\ UNCHANGED caches
          ELSE IF RateGateway(currency) = "btc_rate"
          THEN IF BtcHit(btc_cache, btc_cache_time, r.btc_now)
               THEN /\ cache_rates' = DictPut(cache_rates, currency, btc_cache[1])
                    /\ cache_time' = now
                    /\ req' = [req EXCEPT ![h] = RateAnswer(r, btc_cache[1], "btc_cache")]
                    /\ obs' = Observe(req'[h], btc_cache_time)
                    /\ UNCHANGED <<cache_history, cache_history_time,
                                   btc_cache, btc_cache_time>>
               ELSE /\ req' = [req EXCEPT ![h] = [r EXCEPT !.pc = "btc_rate"]]
                    /\ UNCHANGED <<caches, obs>>
          ELSE IF RateGateway(currency) = "bacen_rate"
          THEN /\ req' = [req EXCEPT ![h] = [r EXCEPT !.pc = "bacen_rate"]]
               /\ UNCHANGED <<caches, obs>>
          ELSE /\ req' = [req EXCEPT ![h] = Error(r, 400)]
               /\ obs' = Observe(req'[h], obs.fetched)
               /\ UNCHANGED caches
    /\ UNCHANGED <<clock, upstream>>

RateBegin(h, cur) == NoneInFlight /\ RateStart(h, cur)

\* fetch_bacen_rate(series_id) asks for the last days=30 days
RateWindow == 30

\* the answers fetch_bacen_rate(CURRENCY_CODES[currency]) can give now
BacenRateResults(currency) ==
    {fetch_bacen_rate(resp) :
        resp \in BacenResponses(CURRENCY_CODES[currency],
                                Today(clock) - RateWindow, Today(clock))}

\* the answers fetch_btc_rate() can give now
BtcRateResults == {fetch_btc_rate(resp) : resp \in GeckoRateResponses}

\* stamps cache_time whatever the gateway answers
RateBacenReplyStampsFirst(h) ==
    /\ req[h].pc = "bacen_rate"
    /\ LET r == req[h]
       IN \E value \in BacenRateResults(r.currency) :
            /\ cache_time' = r.now
            /\ IF value.ok
               THEN /\ cache_rates' = DictPut(cache_rates, r.currency, value.value)
                    /\ req' = [req EXCEPT ![h] =
                                  RateAnswer([r EXCEPT !.calls = @ + 1], value.value,
                                             "gateway")]
                    /\ obs' = Observe(req'[h], clock)
               ELSE /\ req' = [req EXCEPT ![h] = GatewayError(r, value.status)]
                    /\ obs' = Observe(req'[h], obs.fetched)
                    /\ UNCHANGED cache_rates
    /\ UNCHANGED <<clock, upstream, cache_history, cache_history_time,
                   btc_cache, btc_cache_time>>

\* fetch_bacen_rate answers; lines 148, 152-155
RateBacenReply(h) ==
    /\ req[h].pc = "bacen_rate"
    /\ LET r == req[h]
       IN \E value \in BacenRateResults(r.currency) :
            IF value.ok
            THEN /\ cache_rates' = DictPut(cache_rates, r.currency, value.value)
                 /\ cache_time' = r.now
                 /\ req' = [req EXCEPT ![h] =
                               RateAnswer([r EXCEPT !.calls = @ + 1], value.value,
                                          "gateway")]
                 /\ obs' = Observe(req'[h], clock)
                 /\ UNCHANGED <<cache_history, cache_history_time,
                                btc_cache, btc_cache_time>>
            ELSE /\ req' = [req EXCEPT ![h] = GatewayError(r, value.status)]
                 /\ obs' = Observe(req'[h], obs.fetched)
                 /\ UNCHANGED caches
    /\ UNCHANGED <<clock, upstream>>

\* fetch_btc_rate answers inside fetch_btc_rate_cached; lines 129-132, 152-155
RateBtcReply(h) ==
    /\ req[h].pc = "btc_rate"
    /\ LET r == req[h]
       IN \E value \in BtcRateResults :
            IF value.ok
            THEN /\ btc_cache' = Some(value.value)
                 /\ btc_cache_time' = r.btc_now
                 /\ cache_rates' = DictPut(cache_rates, r.currency, value.value)
                 /\ cache_time' = r.now
                 /\ req' = [req EXCEPT ![h] =
                               RateAnswer([r EXCEPT !.calls = @ + 1], value.value,
                                          "gateway")]
                 /\ obs' = Observe(req'[h], clock)
                 /\ UNCHANGED <<cache_history, cache_history_time>>
            ELSE /\ req' = [req EXCEPT ![h] = GatewayError(r, value.status)]
                 /\ obs' = Observe(req'[h], obs.fetched)
                 /\ UNCHANGED caches
    /\ UNCHANGED <<clock, upstream>>

(***************************************************************************)
(* GET /history                                                            *)
(***************************************************************************)
HistoryStart(h, b, days) ==
    /\ CanStart(h)
    /\ LET r == NewReq("history", Upper(b), "", days)
           base == r.currency
           key == HistoryKey(base, days)
       IN req' = [req EXCEPT ![h] =
              IF base # "BTC" /\ base \notin DOMAIN CURRENCY_CODES THEN Error(r, 400)
              ELSE IF ~DaysInRange(days) THEN Error(r, 400)
              ELSE IF HistoryHit(cache_history, cache_history_time, key, r.now)
              THEN [r EXCEPT !.pc = "done", !.status = 200, !.source = "cache",
                             !.series = cache_history[key]]
              ELSE [r EXCEPT !.pc = "history_call"]]
    /\ UNCHANGED <<clock, upstream, caches, obs>>

HistoryBegin(h, b, days) == NoneInFlight /\ HistoryStart(h, b, days)

\* the answers fetch_btc_history(days) or fetch_bacen_history(code, start, end) can give
HistoryResults(base, days) ==
    IF base = "BTC"
    THEN {fetch_btc_history(resp) : resp \in GeckoHistoryResponses(days)}
    ELSE {fetch_bacen_history(resp) :
             resp \in BacenResponses(CURRENCY_CODES[base],
                                     Today(clock) - days, Today(clock))}

\* time.time() read again at the write
HistoryReplyStampsClock(h) ==
    /\ req[h].pc = "history_call"
    /\ LET r == req[h]
           key == HistoryKey(r.currency, r.n)
       IN \E result \in HistoryResults(r.currency, r.n) :
            IF result.ok
            THEN /\ cache_history' = DictPut(cache_history, key, result.value)
                 /\ cache_history_time' = DictPut(cache_history_time, key, clock)
                 /\ req' = [req EXCEPT ![h] =
                               [r EXCEPT !.pc = "done", !.status = 200, !.calls = @ + 1,
                                         !.source = "gateway", !.series = result.value]]
                 /\ UNCHANGED <<cache_rates, cache_time, btc_cache, btc_cache_time>>
            ELSE /\ req' = [req EXCEPT ![h] = GatewayError(r, result.status)]
                 /\ UNCHANGED caches
    /\ UNCHANGED <<clock, upstream, obs>>

\* the gateway answers; lines 173-186
HistoryReply(h) ==
    /\ req[h].pc = "history_call"
    /\ LET r == req[h]
           key == HistoryKey(r.currency, r.n)
       IN \E result \in HistoryResults(r.currency, r.n) :
            IF result.ok
            THEN /\ cache_history' = DictPut(cache_history, key, result.value)
                 /\ cache_history_time' = DictPut(cache_history_time, key, r.now)
                 /\ req' = [req EXCEPT ![h] =
                               [r EXCEPT !.pc = "done", !.status = 200, !.calls = @ + 1,
                                         !.source = "gateway", !.series = result.value]]
                 /\ UNCHANGED <<cache_rates, cache_time, btc_cache, btc_cache_time>>
            ELSE /\ req' = [req EXCEPT ![h] = GatewayError(r, result.status)]
                 /\ UNCHANGED caches
    /\ UNCHANGED <<clock, upstream, obs>>

(***************************************************************************)
(* GET /convert                                                            *)
(***************************************************************************)
\* BRL not told apart from the other codes
GetRateNoBase(currency, cached, stamp, now) ==
    IF currency = "BTC"
    THEN IF BtcHit(cached, stamp, now) THEN [kind |-> "value", value |-> cached[1]]
         ELSE [kind |-> "call", value |-> 0]
    ELSE IF currency \in DOMAIN CURRENCY_CODES THEN [kind |-> "call", value |-> 0]
    ELSE [kind |-> "raise", value |-> 400]

\* get_rate(currency), lines 204-212, up to its gateway call: the value it returns
\* without one, the gateway it calls, or the exception it raises
GetRate(currency, cached, stamp, now) ==
    IF currency = "BRL" THEN [kind |-> "value", value |-> BaseRate]
    ELSE IF currency = "BTC"
    THEN IF BtcHit(cached, stamp, now) THEN [kind |-> "value", value |-> cached[1]]
         ELSE [kind |-> "call", value |-> 0]
    ELSE IF currency \in DOMAIN CURRENCY_CODES THEN [kind |-> "call", value |-> 0]
    ELSE [kind |-> "raise", value |-> 400]

\* lines 217-223; a zero to_rate raises ZeroDivisionError, answered 500
ConvertFinish(r, from_rate, to_rate) ==
    IF to_rate = 0 THEN Error([r EXCEPT !.from_rate = from_rate], 500)
    ELSE [r EXCEPT !.pc = "done", !.status = 200, !.from_rate = from_rate,
                   !.num = r.n * from_rate, !.den = to_rate]

\* to_rate = get_rate(to_currency), line 215; cached and stamp are the BTC cache as
\* get_rate(from_currency) left it
ConvertTo(r, from_rate, cached, stamp) ==
    LET got == GetRate(r.to_currency, cached, stamp, clock)
    IN CASE got.kind = "value" -> ConvertFinish(r, from_rate, got.value)
         [] got.kind = "call" ->
                [r EXCEPT !.pc = "convert_to", !.side = "to", !.from_rate = from_rate,
                          !.btc_now = clock]
         [] OTHER -> Error(r, got.value)

\* from_rate = get_rate(from_currency), line 214
ConvertFrom(r) ==
    LET got == GetRate(r.currency, btc_cache, btc_cache_time, clock)
    IN CASE got.kind = "value" -> ConvertTo(r, got.value, btc_cache, btc_cache_time)
         [] got.kind = "call" ->
                [r EXCEPT !.pc = "convert_from", !.side = "from", !.btc_now = clock]
         [] OTHER -> Error(r, got.value)

ConvertStart(h, f, t, amount) ==
    /\ CanStart(h)
    /\ LET r == NewReq("convert", Upper(f), Upper(t), amount)
       IN req' = [req EXCEPT ![h] =
              IF r.currency \notin supported_currencies
                  \/ r.to_currency \notin supported_currencies
              THEN Error(r, 400)
              ELSE ConvertFrom(r)]
    /\ UNCHANGED <<clock, upstream, caches, obs>>

ConvertBegin(h, f, t, amount) == NoneInFlight /\ ConvertStart(h, f, t, amount)

\* the answers the gateway of get_rate(currency) can give
GetRateResults(currency) ==
    IF currency = "BTC" THEN BtcRateResults ELSE BacenRateResults(currency)

\* the gateway call of get_rate(from_currency) answers
ConvertFromReply(h) ==
    /\ req[h].pc = "convert_from"
    /\ LET r == req[h]
       IN \E value \in GetRateResults(r.currency) :
            IF ~value.ok
            THEN /\ req' = [req EXCEPT ![h] = GatewayError(r, value.status)]
                 /\ UNCHANGED <<btc_cache, btc_cache_time>>
            ELSE /\ btc_cache' = IF r.currency = "BTC" THEN Some(value.value) ELSE btc_cache
                 /\ btc_cache_time' = IF r.currency = "BTC" THEN r.btc_now
                                      ELSE btc_cache_time
                 /\ req' = [req EXCEPT ![h] =
                               ConvertTo([r EXCEPT !.calls = @ + 1], value.value,
                                         btc_cache', btc_cache_time')]
    /\ UNCHANGED <<clock, upstream, cache_rates, cache_time, cache_history,
                   cache_history_time, obs>>

\* the gateway call of get_rate(to_currency) answers
ConvertToReply(h) ==
    /\ req[h].pc = "convert_to"
    /\ LET r == req[h]
       IN \E value \in GetRateResults(r.to_currency) :
            IF ~value.ok
            THEN /\ req' = [req EXCEPT ![h] = GatewayError(r, value.status)]
                 /\ UNCHANGED <<btc_cache, btc_cache_time>>
            ELSE /\ btc_cache' = IF r.to_currency = "BTC" THEN Some(value.value)
                                 ELSE btc_cache
                 /\ btc_cache_time' = IF r.to_currency = "BTC" THEN r.btc_now
                                      ELSE btc_cache_time
                 /\ req' = [req EXCEPT ![h] =
                               ConvertFinish([r EXCEPT !.calls = @ + 1],
                                             r.from_rate, value.value)]
    /\ UNCHANGED <<clock, upstream, cache_rates, cache_time, cache_history,
                   cache_history_time, obs>>

(***************************************************************************)
(* Environment: time passes, the providers' data changes                   *)
(***************************************************************************)
Tick ==
    /\ NoneInFlight
    /\ clock + TickStep <= MaxClock
    /\ clock' = clock + TickStep
    /\ UNCHANGED <<upstream, caches, req, obs>>

\* a whole TTL passes
Expire ==
    /\ NoneInFlight
    /\ clock + CACHE_DURATION <= MaxClock
    /\ clock' = clock + CACHE_DURATION
    /\ UNCHANGED <<upstream, caches, req, obs>>

\* requests.get(..., timeout=10): a gateway call in progress takes up to 10 seconds
GatewayTimeout == 10

\* time passes while a gateway call is in progress
Elapse ==
    /\ \E h \in Handlers : InFlight(req[h])
    /\ clock + GatewayTimeout <= StartTime + MaxWaits * GatewayTimeout
    /\ clock' = clock + GatewayTimeout
    /\ UNCHANGED <<upstream, caches, req, obs>>

MarketMove ==
    /\ market < MaxMarket
    /\ market' = market + 1
    /\ UNCHANGED <<clock, chart, caches, req, obs>>

(***************************************************************************)
(* Specifications. Requests are served one at a time by handler 1; each    *)
(* specification draws the requests from its own sets of inputs.           *)
(***************************************************************************)
InitCaches ==
    /\ cache_rates = EmptyDict
    /\ cache_time = 0
    /\ cache_history = EmptyDict
    /\ cache_history_time = EmptyDict
    /\ btc_cache = None
    /\ btc_cache_time = 0

NoObserver ==
    [watch |-> "", seen |-> FALSE, now |-> 0, calls |-> 0, failed |-> FALSE, fetched |-> 0]

Init ==
    /\ clock = StartTime
    /\ market = 0
    /\ chart = DefaultChart
    /\ InitCaches
    /\ req = [h \in Handlers |-> IdleReq]
    /\ obs = NoObserver

Replies ==
    \/ RateBacenReply(1)
    \/ RateBtcReply(1)
    \/ HistoryReply(1)
    \/ ConvertFromReply(1)
    \/ ConvertToReply(1)

\* Spec: all three endpoints, good and bad requests, while time passes
RateInputs == {"USD", "BTC", "XXX", "usd"}
HistoryInputs == {<<"USD", 30>>, <<"BTC", 30>>, <<"XXX", 30>>, <<"USD", 0>>, <<"USD", 366>>}
ConvertInputs == {<<"USD", "BRL">>, <<"BRL", "BTC">>, <<"BTC", "USD">>, <<"XXX", "USD">>,
                  <<"USD", "XXX">>}
Amounts == {100}

Next ==
    \/ Tick
    \/ \E cur \in RateInputs : RateBegin(1, cur)
    \/ \E k \in HistoryInputs : HistoryBegin(1, k[1], k[2])
    \/ \E k \in ConvertInputs, amount \in Amounts : ConvertBegin(1, k[1], k[2], amount)
    \/ Replies

Spec == Init /\ [][Next]_vars

\* SpecRate: GET /rate of every code, watched by an observer of one code, with
\* GET /convert requests, which share the BTC cache and the gateways, in between
WatchCodes == {"USD", "EUR", "GBP", "BTC"}
WatchedRateInputs == {"USD", "EUR", "GBP", "BTC", "XXX", "btc"}
FewConvertInputs == {<<"BTC", "USD">>}

InitRate ==
    /\ clock = StartTime
    /\ market = 0
    /\ chart = DefaultChart
    /\ InitCaches
    /\ req = [h \in Handlers |-> IdleReq]
    /\ obs \in {[NoObserver EXCEPT !.watch = c] : c \in WatchCodes}

NextRate ==
    \/ Tick
    \/ \E cur \in WatchedRateInputs : RateBegin(1, cur)
    \/ \E k \in FewConvertInputs, amount \in Amounts : ConvertBegin(1, k[1], k[2], amount)
    \/ RateBacenReply(1)
    \/ RateBtcReply(1)
    \/ ConvertFromReply(1)
    \/ ConvertToReply(1)

SpecRate == InitRate /\ [][NextRate]_vars

\* SpecConvert: GET /convert of every pair of codes, with GET /rate requests filling
\* the caches, while time passes and the providers' data changes
ConvertCodes == {"USD", "EUR", "BTC", "BRL"}
ConvertAmounts == {1, 100}
ConvertRateInputs == {"USD", "BTC"}

NextConvert ==
    \/ Expire
    \/ MarketMove
    \/ \E cur \in ConvertRateInputs : RateBegin(1, cur)
    \/ \E f \in ConvertCodes, t \in ConvertCodes, amount \in ConvertAmounts :
           ConvertBegin(1, f, t, amount)
    \/ RateBacenReply(1)
    \/ RateBtcReply(1)
    \/ ConvertFromReply(1)
    \/ ConvertToReply(1)

SpecConvert == Init /\ [][NextConvert]_vars

\* SpecHistory: GET /history of several keys, while time passes
ManyHistoryInputs == {<<"USD", 30>>, <<"USD", 60>>, <<"usd", 60>>, <<"BTC", 30>>}

NextHistory ==
    \/ Tick
    \/ \E k \in ManyHistoryInputs : HistoryBegin(1, k[1], k[2])
    \/ HistoryReply(1)

SpecHistory == Init /\ [][NextHistory]_vars

\* SpecCollapse: GET /history of BTC, for every market chart of at most MaxSamples
\* samples, in any order, that the crypto provider may serve
SampleTimes == {0, HalfDayMs, 2 * HalfDayMs}
SamplePrices == {2900, 3000}
Samples == SampleTimes \X SamplePrices
Charts == UNION {[1..n -> Samples] : n \in 0..MaxSamples}
CollapseDays == {1, 30}

InitCollapse ==
    /\ clock = StartTime
    /\ market = 0
    /\ chart \in Charts
    /\ InitCaches
    /\ req = [h \in Handlers |-> IdleReq]
    /\ obs = NoObserver

NextCollapse ==
    \/ \E days \in CollapseDays : HistoryBegin(1, "BTC", days)
    \/ HistoryReply(1)

SpecCollapse == InitCollapse /\ [][NextCollapse]_vars

\* SpecPool: the handlers of the pool run requests concurrently, with no locking; a
\* step of a handler is the part of a request up to its gateway call, or the part
\* from the gateway's answer on; time passes while calls are in progress
PoolRateInputs == {"USD", "BTC"}
PoolHistoryInputs == {<<"USD", 30>>}
PoolConvertInputs == {<<"BTC", "USD">>}

NextPool ==
    \/ Elapse
    \/ \E h \in Handlers, cur \in PoolRateInputs : RateStart(h, cur)
    \/ \E h \in Handlers, k \in PoolHistoryInputs : HistoryStart(h, k[1], k[2])
    \/ \E h \in Handlers, k \in PoolConvertInputs, amount \in Amounts :
           ConvertStart(h, k[1], k[2], amount)
    \/ \E h \in Handlers : RateBacenReply(h)
    \/ \E h \in Handlers : RateBtcReply(h)
    \/ \E h \in Handlers : HistoryReply(h)
    \/ \E h \in Handlers : ConvertFromReply(h)
    \/ \E h \in Handlers : ConvertToReply(h)

SpecPool == Init /\ [][NextPool]_vars

(***************************************************************************)
(* Steps of a request, for the properties below                            *)
(***************************************************************************)
\* handler h takes a new request in this step
Began(h) == ~InFlight(req[h]) /\ req'[h] # req[h]
\* handler h answers its request in this step
Answered(h) == req'[h].pc = "done" /\ req'[h] # req[h]
\* the gateway call of handler h fails in this step
CallFailed(h) == InFlight(req[h]) /\ req'[h].failed

RateCodes == {"USD", "EUR", "GBP", "BTC"}

(***************************************************************************)
(* C1, as claimed: two GET /rate/{c} of the watched code c that start less *)
(* than CACHE_DURATION apart, whatever is requested in between, make at    *)
(* most one gateway call between them.                                     *)
(***************************************************************************)
\* handler h answers a GET /rate of the watched code, which was asked before, less
\* than a TTL ago
SecondInWindow(h) ==
    /\ Answered(h)
    /\ req'[h].op = "rate" /\ req'[h].currency = obs.watch
    /\ obs.seen /\ req'[h].now - obs.now < CACHE_DURATION

C1_AtMostOneCall ==
    [][\A h \in Handlers :
          SecondInWindow(h) => obs.calls + req'[h].calls <= 1]_vars

(***************************************************************************)
(* C1, amended: of two such requests at most one makes a gateway call that *)
(* succeeds, and they make at most one call between them unless the call   *)
(* of the first failed (its error is not cached, so the second calls       *)
(* again).                                                                 *)
(***************************************************************************)
Succeeded(calls, failed) == IF calls > 0 /\ ~failed THEN 1 ELSE 0

C1_AtMostOneSuccessfulCall ==
    [][\A h \in Handlers :
          SecondInWindow(h)
              => /\ Succeeded(obs.calls, obs.failed)
                        + Succeeded(req'[h].calls, req'[h].failed) <= 1
                 /\ ~obs.failed => obs.calls + req'[h].calls <= 1]_vars

\* a GET /rate of the watched code answered from the spot cache, with no call, later
\* than the request that fetched the value and less than a TTL after it
C1_Witness ==
    \E h \in Handlers :
        /\ req[h].pc = "done" /\ req[h].op = "rate" /\ req[h].currency = obs.watch
        /\ req[h].source = "spot" /\ req[h].calls = 0
        /\ obs.fetched < req[h].now /\ req[h].now - obs.fetched < CACHE_DURATION

(***************************************************************************)
(* C2, as claimed: once CACHE_DURATION has passed since the value that     *)
(* cache_rates holds for the watched code was obtained from upstream, the  *)
(* next GET /rate of that code goes to the gateway.                        *)
(***************************************************************************)
C2_RefetchAfterTtl ==
    [][\A h \in Handlers :
          ( /\ Began(h)
            /\ req'[h].op = "rate" /\ req'[h].currency = obs.watch
            /\ obs.watch \in DOMAIN cache_rates
            /\ clock - obs.fetched >= CACHE_DURATION )
              => InFlight(req'[h])]_vars

(***************************************************************************)
(* C2, amended: once CACHE_DURATION has passed since the shared spot       *)
(* timestamp was stamped (by a GET /rate of any code) and, for BTC, also   *)
(* since the BTC cache was stamped, the next GET /rate of a supported code *)
(* goes to its gateway.                                                    *)
(***************************************************************************)
C2_RefetchAfterSharedTtl ==
    [][\A h \in Handlers :
          ( /\ Began(h)
            /\ req'[h].op = "rate" /\ req'[h].currency \in RateCodes
            /\ clock - cache_time >= CACHE_DURATION
            /\ req'[h].currency = "BTC" => clock - btc_cache_time >= CACHE_DURATION )
              => req'[h].pc = IF req'[h].currency = "BTC" THEN "btc_rate"
                              ELSE "bacen_rate"]_vars

\* a GET /rate at its gateway while cache_rates holds an expired value of its code
C2_Witness ==
    \E h \in Handlers :
        /\ req[h].op = "rate" /\ InFlight(req[h])
        /\ req[h].currency \in DOMAIN cache_rates
        /\ req[h].now - cache_time >= CACHE_DURATION

(***************************************************************************)
(* C6: the two gateways are independent. GET /rate/BTC waits for the       *)
(* crypto gateway only and GET /rate of USD, EUR or GBP for the fiat       *)
(* gateway only; either ends in an error only when the call to its own     *)
(* gateway failed; a failed call of either gateway changes none of         *)
(* cache_rates, cache_time, btc_cache and btc_cache_time, which is all a   *)
(* later GET /rate reads.                                                  *)
(***************************************************************************)
OwnGateway(currency) == IF currency = "BTC" THEN "btc_rate" ELSE "bacen_rate"

C6_GatewaysIndependent ==
    [][\A h \in Handlers :
          (req'[h].op = "rate" /\ req'[h].currency \in RateCodes)
              => /\ InFlight(req'[h]) => req'[h].pc = OwnGateway(req'[h].currency)
                 /\ (Answered(h) /\ req'[h].status # 200)
                        => /\ req[h].pc = OwnGateway(req'[h].currency)
                           /\ req'[h].failed
                 /\ CallFailed(h)
                        => UNCHANGED <<cache_rates, cache_time, btc_cache,
                                       btc_cache_time>>]_vars

\* GET /rate/BTC answered by the crypto gateway although the last GET /rate/USD failed
\* and the fiat gateway has never served a rate
C6_Witness ==
    \E h \in Handlers :
        /\ req[h].pc = "done" /\ req[h].op = "rate" /\ req[h].currency = "BTC"
        /\ req[h].status = 200 /\ req[h].source = "gateway"
        /\ obs.watch = "USD" /\ obs.seen /\ obs.failed
        /\ DOMAIN cache_rates = {"BTC"}

(***************************************************************************)
(* C7: every bad request (GET /rate of a code outside USD, EUR, GBP, BTC;  *)
(* GET /history with an unsupported base or days outside [1, 365];         *)
(* GET /convert with a code outside USD, EUR, GBP, BTC, BRL) is answered   *)
(* 400 in the step that takes it, with no gateway call and every cache     *)
(* variable unchanged.                                                     *)
(***************************************************************************)
BadRequest(r) ==
    \/ r.op = "rate" /\ r.currency \notin RateCodes
    \/ r.op = "history" /\ (r.currency \notin RateCodes \/ r.n < 1 \/ r.n > 365)
    \/ r.op = "convert" /\ (r.currency \notin RateCodes \cup {"BRL"}
                              \/ r.to_currency \notin RateCodes \cup {"BRL"})

FailedCurrency(r) == IF r.side = "to" THEN r.to_currency ELSE r.currency

SameKey(old, new) ==
    /\ ~BadRequest(new)
    /\ new.op = old.op
    /\ new.currency = FailedCurrency(old)
    /\ old.op = "history" => new.n = old.n

C8_ErrorsNotCached ==
    [][\A h \in Handlers :
          /\ (Began(h) /\ InFlight(req'[h])) => UNCHANGED caches
          /\ CallFailed(h) => (UNCHANGED caches /\ req'[h].pc = "done")
          /\ (req[h].failed /\ Began(h) /\ SameKey(req[h], req'[h]))
                 => req'[h].pc \in {"bacen_rate", "btc_rate", "history_call",
                                    "convert_from"}]_vars

\* a GET /history whose gateway call failed while an expired series of its key is held
C8_Witness ==
    \E h \in Handlers :
        /\ req[h].pc = "done" /\ req[h].op = "history" /\ req[h].failed
        /\ HistoryKey(req[h].currency, req[h].n) \in DOMAIN cache_history
        /\ cache_history_time[HistoryKey(req[h].currency, req[h].n)] < req[h].now

(***************************************************************************)
(* C9: a request that saw a gateway call fail ends there with an error     *)
(* status and no rate, series or converted amount, also when an expired    *)
(* value of its key is still in the cache.                                 *)
(***************************************************************************)
NoBody(r) == r.rate = 0 /\ r.series = EmptyDict /\ r.num = 0

C9_FailedFetchIsAnError ==
    \A h \in Handlers :
        req[h].failed => (req[h].pc = "done" /\ req[h].status >= 400 /\ NoBody(req[h]))

\* a GET /rate whose gateway call failed while an expired rate of its code is held
C9_Witness ==
    \E h \in Handlers :
        /\ req[h].pc = "done" /\ req[h].op = "rate" /\ req[h].failed
        /\ req[h].currency \in DOMAIN cache_rates
        /\ req[h].now - cache_time >= CACHE_DURATION

(***************************************************************************)
(* C3, as claimed: a GET /convert answered 200 returns                     *)
(* amount * resolve(from) / resolve(to), resolve(x) being what GET /rate/x *)
(* answers at that moment (1.0 for BRL), when the providers' data has not  *)
(* changed since the request began.                                        *)
(***************************************************************************)
\* what GET /rate/{currency} answers now if its gateway, when called, succeeds
ResolveNow(currency) ==
    IF currency = "BRL" THEN 1 * Scale
    ELSE IF SpotHit(cache_rates, cache_time, currency, clock) THEN cache_rates[currency]
    ELSE IF currency = "BTC"
    THEN IF BtcHit(btc_cache, btc_cache_time, clock) THEN btc_cache[1]
         ELSE GeckoPrice(market)
    ELSE fetch_bacen_rate(BacenGood(CURRENCY_CODES[currency], 0, 0, market)).value

C3_ConvertMatchesResolve ==
    \A h \in Handlers :
        ( /\ req[h].pc = "done" /\ req[h].op = "convert" /\ req[h].status = 200
          /\ req[h].now = clock /\ req[h].market0 = market )
            => req[h].num * ResolveNow(req[h].to_currency)
                   = req[h].n * ResolveNow(req[h].currency) * req[h].den

(***************************************************************************)
(* C4: a GET /convert never calls a gateway for a BRL side, whose rate is  *)
(* 1.0; from BRL to BRL it is answered at once with exactly the amount and *)
(* no gateway call, in every cache state.                                  *)
(***************************************************************************)
Sides(r) == (IF r.currency = "BRL" THEN 0 ELSE 1) + (IF r.to_currency = "BRL" THEN 0 ELSE 1)

C4_BaseNeverFetched ==
    \A h \in Handlers :
        req[h].op = "convert"
            => /\ req[h].calls <= Sides(req[h])
               /\ req[h].currency = "BRL"
                      => /\ req[h].pc # "convert_from"
                         /\ req[h].status = 200 => req[h].from_rate = 1 * Scale
               /\ req[h].to_currency = "BRL"
                      => /\ req[h].pc # "convert_to"
                         /\ req[h].status = 200 => req[h].den = 1 * Scale
               /\ (req[h].currency = "BRL" /\ req[h].to_currency = "BRL")
                      => /\ req[h].pc = "done" /\ req[h].status = 200
                         /\ req[h].calls = 0
                         /\ req[h].num = req[h].n * req[h].den

\* BRL to BRL answered while both caches hold expired rates
C4_Witness ==
    \E h \in Handlers :
        /\ req[h].pc = "done" /\ req[h].op = "convert"
        /\ req[h].currency = "BRL" /\ req[h].to_currency = "BRL"
        /\ req[h].status = 200 /\ req[h].calls = 0
        /\ "USD" \in DOMAIN cache_rates /\ btc_cache # None
        /\ req[h].now - cache_time >= CACHE_DURATION
        /\ req[h].now - btc_cache_time >= CACHE_DURATION

(***************************************************************************)
(* C5: history keys are independent. A GET /history that fetches and       *)
(* stores the series of (base1, days1) leaves the series and the timestamp *)
(* of every other (base2, days2) as they were, present or absent, and a    *)
(* GET /history of (base2, days2) that was a miss before is a miss after.  *)
(***************************************************************************)
HistoryDaysChecked == {30, 60}

C5_HistoryKeysIndependent ==
    [][\A h \in Handlers :
          (Answered(h) /\ req'[h].op = "history" /\ req'[h].source = "gateway")
              => \A base \in RateCodes, days \in HistoryDaysChecked :
                    <<base, days>> # <<req'[h].currency, req'[h].n>>
                        => LET key == HistoryKey(base, days)
                           IN /\ key \in DOMAIN cache_history'
                                    <=> key \in DOMAIN cache_history
                              /\ key \in DOMAIN cache_history
                                    => /\ cache_history'[key] = cache_history[key]
                                       /\ cache_history_time'[key]
                                              = cache_history_time[key]
                              /\ ~HistoryHit(cache_history, cache_history_time,
                                             key, clock)
                                    => ~HistoryHit(cache_history', cache_history_time',
                                                   key, clock')]_vars

\* the series of USD_30 fetched while an expired series of USD_60 is held
C5_Witness ==
    \E h \in Handlers :
        /\ req[h].pc = "done" /\ req[h].op = "history" /\ req[h].source = "gateway"
        /\ req[h].currency = "USD" /\ req[h].n = 30
        /\ HistoryKey("USD", 60) \in DOMAIN cache_history
        /\ req[h].now - cache_history_time[HistoryKey("USD", 60)] >= CACHE_DURATION
        /\ cache_history_time[HistoryKey("USD", 30)] = req[h].now

(***************************************************************************)
(* C10: the series GET /history answers for BTC has exactly one entry per  *)
(* calendar date among the samples of the chart the provider served, and   *)
(* the entry of a date is the price of the last sample of that date in the *)
(* chart's order.                                                          *)
(***************************************************************************)
SampleDate(sample) == strftime(DateFromTimestampMs(sample[1], LocalUtcOffset), "%Y-%m-%d")

LastOfDate(date) ==
    CHOOSE i \in DOMAIN chart :
        /\ SampleDate(chart[i]) = date
        /\ \A j \in DOMAIN chart : SampleDate(chart[j]) = date => j <= i

C10_LastSampleOfEachDate ==
    \A h \in Handlers :
        ( /\ req[h].pc = "done" /\ req[h].op = "history" /\ req[h].currency = "BTC"
          /\ req[h].status = 200 )
            => /\ DOMAIN req[h].series = {SampleDate(chart[i]) : i \in DOMAIN chart}
               /\ \A date \in DOMAIN req[h].series :
                     req[h].series[date] = [BRL |-> chart[LastOfDate(date)][2]]

\* a chart with two samples of one date at different prices has been collapsed
C10_Witness ==
    \E h \in Handlers :
        /\ req[h].pc = "done" /\ req[h].op = "history" /\ req[h].currency = "BTC"
        /\ req[h].status = 200 /\ req[h].source = "gateway"
        /\ \E i, j \in DOMAIN chart :
              /\ i < j
              /\ SampleDate(chart[i]) = SampleDate(chart[j])
              /\ chart[i][1] # chart[j][1]
              /\ chart[i][2] # chart[j][2]
              /\ Cardinality(DOMAIN req[h].series) < Len(chart)

(***************************************************************************)
(* C11: the shared spot timestamp lets one code refresh another. Whenever  *)
(* a GET /rate of the watched code B begins while cache_rates holds a      *)
(* value of B obtained from upstream CACHE_DURATION or more ago and the    *)
(* shared timestamp is less than CACHE_DURATION old (a later fetch of      *)
(* another code stamped it), it is answered from the spot cache at once,   *)
(* with no gateway call and no write, with the value held for B.           *)
(***************************************************************************)
C11_SharedStampServesStale ==
    [][\A h \in Handlers :
          ( /\ Began(h)
            /\ req'[h].op = "rate" /\ req'[h].currency = obs.watch
            /\ obs.watch \in DOMAIN cache_rates
            /\ clock - obs.fetched >= CACHE_DURATION
            /\ clock - cache_time < CACHE_DURATION )
              => /\ req'[h].pc = "done" /\ req'[h].status = 200
                 /\ req'[h].source = "spot" /\ req'[h].calls = 0
                 /\ req'[h].rate = cache_rates[obs.watch]
                 /\ UNCHANGED caches]_vars

\* B fetched at t0, another code fetched at t1 < t0 + TTL, and GET /rate/B at t2 with
\* t0 + TTL <= t2 < t1 + TTL answered from the spot cache
C11_Witness ==
    \E h \in Handlers :
        /\ req[h].pc = "done" /\ req[h].op = "rate" /\ req[h].currency = obs.watch
        /\ req[h].source = "spot" /\ req[h].calls = 0
        /\ obs.fetched < cache_time /\ cache_time - obs.fetched < CACHE_DURATION
        /\ obs.fetched + CACHE_DURATION <= req[h].now
        /\ req[h].now < cache_time + CACHE_DURATION
        /\ req[h].rate = cache_rates[obs.watch]

(***************************************************************************)
(* C12, as claimed: GET /convert gets a fiat rate the way GET /rate does.  *)
(* When the spot cache is fresh and holds the fiat code it converts from,  *)
(* it does not call the fiat gateway for it; and when a gateway call of a  *)
(* convert for a fiat code succeeds, the value is stored in cache_rates    *)
(* under that code and cache_time is stamped.                              *)
(***************************************************************************)
FiatCodes == {"USD", "EUR", "GBP"}

\* the gateway call of handler h, for a fiat code, succeeds in this step
FiatFetched(h) ==
    /\ req[h].pc \in {"convert_from", "convert_to"}
    /\ FailedCurrency(req[h]) \in FiatCodes
    /\ req'[h].calls = req[h].calls + 1
    /\ ~req'[h].failed

C12_ConvertUsesSpotCache ==
    [][\A h \in Handlers :
          /\ ( /\ Began(h) /\ req'[h].op = "convert"
               /\ req'[h].currency \in FiatCodes
               /\ req'[h].currency \in DOMAIN cache_rates
               /\ clock - cache_time < CACHE_DURATION )
                 => req'[h].pc # "convert_from"
          /\ FiatFetched(h)
                 => /\ FailedCurrency(req[h]) \in DOMAIN cache_rates'
                    /\ cache_time' = clock]_vars

(***************************************************************************)
(* C13: a GET /rate/{c} is answered from the spot cache, with no gateway   *)
(* call and no write to a cache variable, exactly when the shared          *)
(* timestamp is less than 900 seconds old and c has an entry; otherwise a  *)
(* supported c goes to its gateway (BTC: to the BTC cache first), also     *)
(* under a fresh timestamp; and when such a miss succeeds, cache_rates     *)
(* holds the answered value under c, cache_time is the time of the         *)
(* request and the entries of the other codes are as before.               *)
(***************************************************************************)
SpotTtl == 900

C13_SpotHitExactly ==
    [][\A h \in Handlers :
          /\ (Began(h) /\ req'[h].op = "rate")
                => LET c == req'[h].currency
                       hit == clock - cache_time < SpotTtl /\ c \in DOMAIN cache_rates
                   IN /\ hit <=> req'[h].source = "spot"
                      /\ hit => /\ req'[h].pc = "done" /\ req'[h].status = 200
                                /\ req'[h].rate = cache_rates[c]
                                /\ req'[h].calls = 0
                                /\ UNCHANGED caches
                      /\ (~hit /\ c \in FiatCodes)
                            => (req'[h].pc = "bacen_rate" /\ UNCHANGED caches)
                      /\ (~hit /\ c = "BTC")
                            => \/ req'[h].pc = "btc_rate" /\ UNCHANGED caches
                               \/ req'[h].pc = "done" /\ req'[h].source = "btc_cache"
          /\ ( /\ Answered(h) /\ req'[h].op = "rate" /\ req'[h].status = 200
               /\ req'[h].source \in {"gateway", "btc_cache"} )
                => LET c == req'[h].currency
                   IN /\ DOMAIN cache_rates' = DOMAIN cache_rates \cup {c}
                      /\ cache_rates'[c] = req'[h].rate
                      /\ \A d \in DOMAIN cache_rates \ {c} :
                            cache_rates'[d] = cache_rates[d]
                      /\ cache_time' = req'[h].now]_vars

\* a never-fetched code answered by its gateway under a fresh shared timestamp, next
\* to the entry of another code
C13_Witness ==
    \E h \in Handlers :
        /\ req[h].pc = "done" /\ req[h].op = "rate" /\ req[h].source = "gateway"
        /\ req[h].currency = "EUR" /\ obs.watch = "EUR"
        /\ obs.seen /\ obs.calls = 1 /\ obs.fetched = req[h].now
        /\ DOMAIN cache_rates = {"USD", "EUR"}
        /\ cache_time = req[h].now
        /\ cache_rates["EUR"] = req[h].rate /\ cache_rates["USD"] # req[h].rate

(***************************************************************************)
(* C14, as claimed: the BTC cache is valid exactly when a value has been   *)
(* stored and it is less than 900 seconds old, whatever the value (a price *)
(* of 0 too). A BTC lookup, by GET /rate/BTC after a spot miss or by       *)
(* GET /convert from BTC, makes no crypto gateway call when the cache is   *)
(* valid and goes to the crypto gateway otherwise; a call that succeeds    *)
(* stores the value with the time of the lookup.                           *)
(***************************************************************************)
BtcTtl == 900

BtcLookup(r) ==
    \/ /\ r.op = "rate" /\ r.currency = "BTC"
       /\ ~(r.now - cache_time < BtcTtl /\ "BTC" \in DOMAIN cache_rates)
    \/ /\ r.op = "convert" /\ r.currency = "BTC"
       /\ r.to_currency \in supported_currencies

C14_BtcCacheValidExactly ==
    [][\A h \in Handlers :
          /\ (Began(h) /\ BtcLookup(req'[h]))
                => LET valid == btc_cache # None /\ clock - btc_cache_time < BtcTtl
                       called == req'[h].pc \in {"btc_rate", "convert_from"}
                   IN /\ valid <=> ~called
                      /\ UNCHANGED <<btc_cache, btc_cache_time>>
                      /\ (valid /\ req'[h].op = "rate") => req'[h].rate = btc_cache[1]
          /\ ( /\ req[h].pc \in {"btc_rate", "convert_from", "convert_to"}
               /\ FailedCurrency(req[h]) = "BTC"
               /\ req'[h].calls = req[h].calls + 1 /\ ~req'[h].failed )
                => /\ btc_cache' # None
                   /\ btc_cache_time' = req[h].btc_now]_vars

(***************************************************************************)
(* C15: history freshness is per key and bounded. A series under a key is  *)
(* stored, and its timestamp set, only by the GET /history of that key     *)
(* that fetched it, and the timestamp is the time that request started; a  *)
(* GET /history answered from the cache returns the series of its own key, *)
(* whose timestamp is less than 900 seconds before the request started; a  *)
(* request whose key holds a series 900 seconds old or older goes to the   *)
(* gateway; no GET /rate, GET /convert or GET /history of another key      *)
(* changes the series or the timestamp of a key.                           *)
(***************************************************************************)
HistoryTtl == 900

HistoryKeysChecked == {HistoryKey(base, days) : base \in RateCodes, days \in {30, 60}}

\* the entry of key is written in this step
HistoryWritten(key) ==
    \/ (key \in DOMAIN cache_history') # (key \in DOMAIN cache_history)
    \/ (key \in DOMAIN cache_history_time') # (key \in DOMAIN cache_history_time)
    \/ /\ key \in DOMAIN cache_history /\ key \in DOMAIN cache_history'
       /\ cache_history'[key] # cache_history[key]
    \/ /\ key \in DOMAIN cache_history_time /\ key \in DOMAIN cache_history_time'
       /\ cache_history_time'[key] # cache_history_time[key]

C15_HistoryFreshPerKey ==
    [][/\ \A key \in HistoryKeysChecked :
             HistoryWritten(key)
                 => \E h \in Handlers :
                       /\ Answered(h) /\ req'[h].op = "history"
                       /\ req'[h].source = "gateway"
                       /\ HistoryKey(req'[h].currency, req'[h].n) = key
                       /\ cache_history'[key] = req'[h].series
                       /\ cache_history_time'[key] = req'[h].now
       /\ \A h \in Handlers :
             (Began(h) /\ req'[h].op = "history" /\ ~BadRequest(req'[h]))
                 => LET key == HistoryKey(req'[h].currency, req'[h].n)
                        held == key \in DOMAIN cache_history
                    IN /\ req'[h].source = "cache"
                             => /\ held
                                /\ req'[h].series = cache_history[key]
                                /\ req'[h].now - cache_history_time[key] < HistoryTtl
                       /\ (held /\ clock - cache_history_time[key] >= HistoryTtl)
                             => req'[h].pc = "history_call"
                       /\ req'[h].pc \in {"done", "history_call"}
                       /\ req'[h].pc = "done" => req'[h].source = "cache"]_vars

\* USD_30 answered from the cache after a GET /history of BTC_30 and a GET /rate
\* were served later than the request that fetched it
C15_Witness ==
    \E h \in Handlers :
        /\ req[h].pc = "done" /\ req[h].op = "history" /\ req[h].source = "cache"
        /\ req[h].currency = "USD" /\ req[h].n = 30
        /\ HistoryKey("BTC", 30) \in DOMAIN cache_history_time
        /\ cache_history_time[HistoryKey("USD", 30)]
              < cache_history_time[HistoryKey("BTC", 30)]
        /\ cache_history_time[HistoryKey("USD", 30)] < cache_time
        /\ cache_history_time[HistoryKey("USD", 30)] < req[h].now
        /\ req[h].now - cache_history_time[HistoryKey("USD", 30)] < HistoryTtl

(***************************************************************************)
(* C16: with handlers running concurrently and no locking, two requests    *)
(* for one key can both miss and both call the gateway. Whenever a handler *)
(* is at the gateway for a key (a GET /rate of a fiat code, a GET /rate    *)
(* of BTC, a GET /history) and the lookup of that key still misses,        *)
(* another handler that is not busy can take a request for the same key,   *)
(* and it goes to the gateway too.                                         *)
(***************************************************************************)
SpotMiss(currency) ==
    ~(clock - cache_time < SpotTtl /\ currency \in DOMAIN cache_rates)

BtcMiss ==
    ~(btc_cache # None /\ btc_cache[1] # 0 /\ clock - btc_cache_time < BtcTtl)

HistoryMiss(key) ==
    ~(key \in DOMAIN cache_history /\ clock - cache_history_time[key] < HistoryTtl)

C16_MissesDoNotCoalesce ==
    \A g, h \in Handlers :
        (g # h /\ ~InFlight(req[h]))
            => /\ (req[g].pc = "bacen_rate" /\ SpotMiss(req[g].currency))
                     => ENABLED (/\ RateStart(h, req[g].currency)
                                 /\ req'[h].pc = "bacen_rate")
               /\ (req[g].pc = "btc_rate" /\ SpotMiss("BTC") /\ BtcMiss)
                     => ENABLED (RateStart(h, "BTC") /\ req'[h].pc = "btc_rate")
               /\ ( /\ req[g].pc = "history_call"
                    /\ HistoryMiss(HistoryKey(req[g].currency, req[g].n)) )
                     => ENABLED (/\ HistoryStart(h, req[g].currency, req[g].n)
                                 /\ req'[h].pc = "history_call")

\* two GET /rate/USD, both answered by the gateway, the second begun before the first
\* was answered: two calls for one key within one TTL window
C16_Witness ==
    /\ \A h \in Handlers :
          /\ req[h].pc = "done" /\ req[h].op = "rate" /\ req[h].currency = "USD"
          /\ req[h].source = "gateway" /\ req[h].calls = 1
          /\ cache_time - req[h].now < CACHE_DURATION
    /\ \E g, h \in Handlers : g # h /\ req[g].now < req[h].now

(***************************************************************************)
(* C17, as claimed: whenever a value is stored in the spot cache, the BTC  *)
(* cache or the history cache, the timestamp written with it is the clock  *)
(* at that moment, also when time has passed during the gateway call.      *)
(***************************************************************************)
\* handler h stores a rate in cache_rates in this step
SpotStored(h) ==
    /\ Answered(h) /\ req'[h].op = "rate" /\ req'[h].status = 200
    /\ req'[h].source \in {"gateway", "btc_cache"}

\* handler h stores the price the crypto gateway answered in btc_cache in this step
BtcStored(h) ==
    /\ req[h].pc \in {"btc_rate", "convert_from", "convert_to"}
    /\ FailedCurrency(req[h]) = "BTC"
    /\ req'[h].calls = req[h].calls + 1 /\ ~req'[h].failed

\* handler h stores a series in cache_history in this step
HistoryStored(h) ==
    Answered(h) /\ req'[h].op = "history" /\ req'[h].source = "gateway"

C17_WritesStampTheClock ==
    [][\A h \in Handlers :
          /\ SpotStored(h) => cache_time' = clock'
          /\ BtcStored(h) => btc_cache_time' = clock'
          /\ HistoryStored(h)
                => cache_history_time'[HistoryKey(req'[h].currency, req'[h].n)]
                       = clock']_vars

(***************************************************************************)
(* C17, amended: the timestamp written with a value is the time the        *)
(* request read before its lookup (GET /rate and GET /history: when the    *)
(* request started; the BTC cache: when the BTC lookup started), which is  *)
(* the clock of that moment and never later than the clock at the write;   *)
(* it is earlier than the clock at the write when time has passed during   *)
(* the gateway call.                                                       *)
(***************************************************************************)
C17_WritesStampTheStart ==
    [][\A h \in Handlers :
          /\ Began(h) => (req'[h].now = clock /\ req'[h].btc_now = clock)
          /\ InFlight(req[h])
                => /\ req'[h].now = req[h].now
                   /\ req'[h].btc_now # req[h].btc_now
                         => (req[h].pc = "convert_from" /\ req'[h].btc_now = clock)
          /\ SpotStored(h) => (cache_time' = req'[h].now /\ cache_time' <= clock')
          /\ BtcStored(h)
                => (btc_cache_time' = req[h].btc_now /\ btc_cache_time' <= clock')
          /\ HistoryStored(h)
                => LET key == HistoryKey(req'[h].currency, req'[h].n)
                   IN /\ cache_history_time'[key] = req'[h].now
                      /\ cache_history_time'[key] <= clock']_vars

\* a series stored with a timestamp earlier than the clock: time passed during the
\* gateway call of the only handler that has served a request
C17_Witness ==
    \E g, h \in Handlers :
        /\ req[g].pc = "idle"
        /\ req[h].pc = "done" /\ req[h].op = "history" /\ req[h].source = "gateway"
        /\ cache_history_time[HistoryKey(req[h].currency, req[h].n)] = req[h].now
        /\ req[h].now < clock

(***************************************************************************)
(* C18, as claimed: a GET /convert from a code to the same code that is    *)
(* answered 200 returns the amount, also when the providers' data changes  *)
(* between its two rate lookups.                                           *)
(***************************************************************************)
C18_SameCodeIsIdentity ==
    \A h \in Handlers :
        ( /\ req[h].pc = "done" /\ req[h].op = "convert" /\ req[h].status = 200
          /\ req[h].currency = req[h].to_currency )
            => req[h].num = req[h].n * req[h].den

(***************************************************************************)
(* C19, as claimed: the shared spot timestamp, the BTC timestamp and the   *)
(* timestamp of each history key never move backwards, also when handlers  *)
(* run concurrently and their gateway calls overlap.                       *)
(***************************************************************************)
StampsDoNotDecrease ==
    /\ cache_time' >= cache_time
    /\ btc_cache_time' >= btc_cache_time
    /\ \A key \in DOMAIN cache_history_time :
          /\ key \in DOMAIN cache_history_time'
          /\ cache_history_time'[key] >= cache_history_time[key]

C19_StampsMonotone == [][StampsDoNotDecrease]_vars

(***************************************************************************)
(* C19, amended: a timestamp moves backwards only at the write of a        *)
(* request that another request overlapped (another handler has a request  *)
(* in flight, or had one that read the clock after it began): a request    *)
(* that started earlier then overwrites a later timestamp. At every other  *)
(* step, and so whenever requests are served one at a time, the three      *)
(* kinds of timestamp do not move backwards and no history timestamp is    *)
(* removed.                                                                *)
(***************************************************************************)
\* another handler's request overlaps the request handler h has at its gateway
Overlapped(h) ==
    /\ InFlight(req[h])
    /\ \E g \in Handlers \ {h} : InFlight(req[g]) \/ req[g].btc_now > req[h].now

C19_StampsMonotoneUnlessOverlapped ==
    [][StampsDoNotDecrease
          \/ \E h \in Handlers : Overlapped(h) /\ req'[h] # req[h]]_vars

\* the shared timestamp stamped again by the only handler that has served requests:
\* a GET /rate/BTC answered from an older BTC cache after the entry of USD was stored
C19_Witness ==
    \E g, h \in Handlers :
        /\ req[g].pc = "idle"
        /\ req[h].pc = "done" /\ req[h].op = "rate" /\ req[h].source = "btc_cache"
        /\ "USD" \in DOMAIN cache_rates
        /\ btc_cache_time < req[h].now
        /\ cache_time = req[h].now

(***************************************************************************)
(* C20: cached values have the right provenance in every reachable state,  *)
(* under any interleaving of the handlers. cache_rates has entries for     *)
(* USD, EUR, GBP and BTC only; the entry of a fiat code is a value the     *)
(* provider serves for the series of that code, parsed; the entry of BTC   *)
(* and btc_cache are prices the crypto provider serves; the series under a *)
(* history key base_days, with a supported base and 1 <= days <= 365, is a *)
(* result the gateway of that base gives for that day count. No error      *)
(* value, default or value of another code is stored.                      *)
(***************************************************************************)
\* the rates the fiat provider serves for a code, as "5,2" reads
FiatServed(currency) ==
    LET unit == CASE currency = "USD" -> 5 [] currency = "EUR" -> 6 [] OTHER -> 7
    IN {unit * 10 + (m % 10) : m \in 0..MaxMarket}

\* the prices the crypto provider serves
CryptoServed == {GeckoPrice(m) : m \in 0..MaxMarket}

\* the series the gateway of base gives for days, now
SeriesServed(base, days) ==
    {result.value : result \in {x \in HistoryResults(base, days) : x.ok}}

====
